---------------------------- MODULE Spec2Model ----------------------------
(***************************************************************************)
(* The header-only collection utilities of samples/header-only:            *)
(* utils::filter, utils::sum and utils::average (include/utils/            *)
(* algorithm.hpp) and the demo program that uses them (src/main.cpp).      *)
(*                                                                         *)
(* Every call runs in the frame of the thread that makes it: the loop      *)
(* position, the accumulator and the vector being built are locals of the  *)
(* call.  The vectors the calls read are held by the callers and are      *)
(* passed by const reference.  One step of the model is one iteration of   *)
(* a loop (or the entry or the return of a call), so calls of different    *)
(* threads interleave iteration by iteration.                              *)
(*                                                                         *)
(* The element type T is an integer type of W bits, signed or unsigned.    *)
(* W stands for the width of int and of the wider types, scaled down so    *)
(* that sums leave T's range on short vectors.  Unsigned addition wraps.   *)
(* Signed addition that leaves T's range is undefined in C++: a build      *)
(* either wraps (two's complement) or traps (-ftrapv, a sanitizer), and    *)
(* the model takes either step.                                            *)
(*                                                                         *)
(* A double is modelled by the exact quotient it stands for, a reduced     *)
(* fraction <<numerator, denominator>>; <<0, 0>> is NaN and <<1, 0>>,      *)
(* <<-1, 0>> are the infinities.  Rounding of doubles is not modelled.     *)
(***************************************************************************)
EXTENDS Integers, Sequences, FiniteSets

VARIABLES
    isSigned,   \* whether T, the element type, is signed
    numbers,    \* the callers' vectors, by identity: [1..n -> Seq(T)]
    predicates, \* the predicate functions the callers pass to filter
    aborted,    \* the process was stopped by an overflow trap
    pc,         \* per thread: "idle", "loop" (inside a call) or "done"
    op,         \* per thread: the function being called
    arg,        \* per thread: which vector the call was given (vec)
    pred,       \* per thread: the predicate a filter call was given
    idx,        \* per thread: the loop's position in vec (1-based)
    acc,        \* per thread: std::accumulate's init
    result,     \* per thread: the vector the loop builds (result, filtered)
    calls,      \* per thread: the elements (by position) the predicate
                \* has been invoked on during the call, in invocation order
    ret         \* per thread: the value the call returned

vars == <<isSigned, numbers, predicates, aborted, pc, op, arg, pred, idx,
          acc, result, calls, ret>>

---------------------------------------------------------------------------
(* Bounds of the model *)

W == 8

MaxLen == 3

NumThreads == 2

ConcLen == 2

---------------------------------------------------------------------------
(* The element type T *)

TMin(sgn) == IF sgn THEN -(2^(W-1)) ELSE 0

TMax(sgn) == IF sgn THEN 2^(W-1) - 1 ELSE 2^W - 1

InT(sgn, x) == TMin(sgn) <= x /\ x <= TMax(sgn)

\* x brought into T's range modulo 2^W
Wrap(sgn, x) == ((x - TMin(sgn)) % (2^W)) + TMin(sgn)

TZero == 0

\* a + b in T
TPlus(sgn, a, b) == Wrap(sgn, a + b)

\* a + b leaves T's range
Overflows(sgn, a, b) == ~InT(sgn, a + b)

\* C++'s a % b for b > 0: the remainder has the sign of a
CRem(a, b) == IF a >= 0 THEN a % b ELSE -((-a) % b)

---------------------------------------------------------------------------
(* double *)

RECURSIVE GCD(_, _)
GCD(a, b) == IF b = 0 THEN a ELSE GCD(b, a % b)

Abs(x) == IF x < 0 THEN -x ELSE x

NaN == <<0, 0>>

DZero == <<0, 1>>

\* static_cast<double>(x)
ToDouble(x) == <<x, 1>>

\* C++'s a / n on integers, n > 0: rounds towards zero
CDiv(a, n) == IF a >= 0 THEN a \div n ELSE -((-a) \div n)

\* fault: the division done on integers
DDivIntegral(x, n) == IF n = 0 THEN NaN ELSE <<CDiv(x[1], n), 1>>

\* x / n for a double x = <<a, 1>> and a size n
DDiv(x, n) ==
    IF n = 0
    THEN (IF x[1] = 0 THEN NaN ELSE <<(IF x[1] > 0 THEN 1 ELSE -1), 0>>)
    ELSE LET g == GCD(Abs(x[1]), n)
         IN  <<x[1] \div g, n \div g>>

---------------------------------------------------------------------------
(* Predicates a caller may pass, and the values calls return *)

\* A predicate is a function from T to bool.  Three are given by their
\* rule; the others by the set of values they hold of.
Named(n) == [name |-> n, holds |-> {}]

Member(S) == [name |-> "member", holds |-> S]

NamedPredicates ==
    {Named("is_even"), Named("always_true"), Named("always_false")}

\* predicate(item)
Test(p, x) ==
    CASE p.name = "is_even"      -> CRem(x, 2) = 0
      [] p.name = "always_true"  -> TRUE
      [] p.name = "always_false" -> FALSE
      [] p.name = "member"       -> x \in p.holds

NoRet == [type |-> "none", val |-> 0]

VecVal(v) == [type |-> "vector", val |-> v]

TVal(x) == [type |-> "T", val |-> x]

DoubleVal(d) == [type |-> "double", val |-> d]

---------------------------------------------------------------------------
(* The loop bodies and the functions as pure operators *)

\* fault: the kept element put at the front of result
FilterBodyPrepend(res, item, p) ==
    IF Test(p, item) THEN <<item>> \o res ELSE res

\* if (predicate(item)) result.push_back(item);
FilterBody(res, item, p) == IF Test(p, item) THEN Append(res, item) ELSE res

RECURSIVE FilterFrom(_, _, _, _)
FilterFrom(vec, p, i, res) ==
    IF i > Len(vec) THEN res
    ELSE FilterFrom(vec, p, i + 1, FilterBody(res, vec[i], p))

filter(vec, p) == FilterFrom(vec, p, 1, <<>>)

\* fault: the step forgets what it has accumulated (init = *first)
AccumulateLast(sgn, init, x) == x

\* fault: the sum kept in a type wider than T
AccumulateWide(sgn, init, x) == init + x

\* std::accumulate's step: init = std::move(init) + *first
Accumulate(sgn, init, x) == TPlus(sgn, init, x)

RECURSIVE AccumulateFrom(_, _, _, _)
AccumulateFrom(sgn, vec, i, init) ==
    IF i > Len(vec) THEN init
    ELSE AccumulateFrom(sgn, vec, i + 1, Accumulate(sgn, init, vec[i]))

sum(sgn, vec) == AccumulateFrom(sgn, vec, 1, TZero)

average(sgn, vec) ==
    IF Len(vec) = 0 THEN DZero
    ELSE DDiv(ToDouble(sum(sgn, vec)), Len(vec))

\* fault: the test of main's loop inverted
MainLoopBodyOdd(filtered, n) ==
    IF CRem(n, 2) = 1 THEN Append(filtered, n) ELSE filtered

\* main's loop body: if (n % 2 == 0) filtered.push_back(n);
MainLoopBody(filtered, n) ==
    IF CRem(n, 2) = 0 THEN Append(filtered, n) ELSE filtered

\* numbers in main
MainNumbers == <<1, 2, 3, 4, 5, 6, 7, 8, 9, 10>>

---------------------------------------------------------------------------
(* Inputs *)

BoundedSeq(S, n) == UNION {[1..m -> S] : m \in 0..n}

Elems(sgn) ==
    IF sgn THEN {TMin(TRUE), -3, 2, 3, TMax(TRUE)}
    ELSE {0, 2, 3, TMax(FALSE)}

InputSeqs(sgn) ==
    BoundedSeq(Elems(sgn), MaxLen) \cup (IF sgn THEN {MainNumbers} ELSE {})

\* the vectors of the concurrent runs: TMax, 2, 3, ... cut at each length
ConcSeqs(sgn) ==
    {[i \in 1..n |-> IF i = 1 THEN TMax(sgn) ELSE i] : n \in 0..ConcLen}

Range(v) == {v[i] : i \in 1..Len(v)}

\* every predicate, as far as the elements of v can tell them apart
AllPredicates(v) == NamedPredicates \cup {Member(S) : S \in SUBSET Range(v)}

Threads == DOMAIN pc

Idle(ts, x) == [t \in ts |-> x]

InitFrames(ts) ==
    /\ aborted = FALSE
    /\ pc = Idle(ts, "idle")
    /\ op = Idle(ts, "none")
    /\ arg = Idle(ts, 0)
    /\ pred = Idle(ts, Named("none"))
    /\ idx = Idle(ts, 0)
    /\ acc = Idle(ts, 0)
    /\ result = Idle(ts, <<>>)
    /\ calls = Idle(ts, <<>>)
    /\ ret = Idle(ts, NoRet)

\* the thread that runs main
MainThread == 1

\* one caller, one vector
Init ==
    /\ isSigned \in BOOLEAN
    /\ numbers \in [{1} -> InputSeqs(isSigned)]
    /\ predicates = AllPredicates(numbers[1])
    /\ InitFrames({MainThread})

\* several threads, two vectors: the longest one and any one
InitConc ==
    /\ isSigned \in BOOLEAN
    /\ numbers \in [{1, 2} -> ConcSeqs(isSigned)]
    /\ Len(numbers[1]) = ConcLen
    /\ predicates = NamedPredicates
    /\ InitFrames(1..NumThreads)

vec(t) == numbers[arg[t]]

---------------------------------------------------------------------------
(* utils::filter *)

\* fault: the loop starts at the second element
FilterCallSkipFirst(t, k, p) ==
    /\ ~aborted
    /\ pc[t] = "idle"
    /\ pc' = [pc EXCEPT ![t] = "loop"]
    /\ op' = [op EXCEPT ![t] = "filter"]
    /\ arg' = [arg EXCEPT ![t] = k]
    /\ pred' = [pred EXCEPT ![t] = p]
    /\ result' = [result EXCEPT ![t] = <<>>]
    /\ idx' = [idx EXCEPT ![t] = 2]
    /\ calls' = [calls EXCEPT ![t] = <<>>]
    /\ UNCHANGED <<isSigned, numbers, predicates, aborted, acc, ret>>

FilterCall(t, k, p) ==
    /\ ~aborted
    /\ pc[t] = "idle"
    /\ pc' = [pc EXCEPT ![t] = "loop"]
    /\ op' = [op EXCEPT ![t] = "filter"]
    /\ arg' = [arg EXCEPT ![t] = k]
    /\ pred' = [pred EXCEPT ![t] = p]
    /\ result' = [result EXCEPT ![t] = <<>>]
    /\ idx' = [idx EXCEPT ![t] = 1]
    /\ calls' = [calls EXCEPT ![t] = <<>>]
    /\ UNCHANGED <<isSigned, numbers, predicates, aborted, acc, ret>>

RemoveAt(v, i) ==
    [j \in 1..(Len(v) - 1) |-> IF j < i THEN v[j] ELSE v[j + 1]]

\* fault: a filter in place, which erases the rejected elements from vec
FilterStepErasing(t) ==
    /\ ~aborted
    /\ pc[t] = "loop"
    /\ op[t] = "filter"
    /\ idx[t] <= Len(vec(t))
    /\ calls' = [calls EXCEPT ![t] = Append(@, idx[t])]
    /\ IF Test(pred[t], vec(t)[idx[t]])
       THEN /\ result' = [result EXCEPT ![t] = Append(@, vec(t)[idx[t]])]
            /\ idx' = [idx EXCEPT ![t] = @ + 1]
            /\ UNCHANGED numbers
       ELSE /\ numbers' = [numbers EXCEPT ![arg[t]] = RemoveAt(@, idx[t])]
            /\ UNCHANGED <<result, idx>>
    /\ UNCHANGED <<isSigned, predicates, aborted, pc, op, arg, pred, acc,
                   ret>>

\* fault: the predicate invoked a second time on the elements it accepts
FilterStepRetest(t) ==
    /\ ~aborted
    /\ pc[t] = "loop"
    /\ op[t] = "filter"
    /\ idx[t] <= Len(vec(t))
    /\ calls' = [calls EXCEPT ![t] =
                    IF Test(pred[t], vec(t)[idx[t]])
                    THEN Append(Append(@, idx[t]), idx[t])
                    ELSE Append(@, idx[t])]
    /\ result' = [result EXCEPT ![t] = FilterBody(@, vec(t)[idx[t]], pred[t])]
    /\ idx' = [idx EXCEPT ![t] = @ + 1]
    /\ UNCHANGED <<isSigned, numbers, predicates, aborted, pc, op, arg,
                   pred, acc, ret>>

FilterStep(t) ==
    /\ ~aborted
    /\ pc[t] = "loop"
    /\ op[t] = "filter"
    /\ idx[t] <= Len(vec(t))
    /\ calls' = [calls EXCEPT ![t] = Append(@, idx[t])]
    /\ result' = [result EXCEPT ![t] = FilterBody(@, vec(t)[idx[t]], pred[t])]
    /\ idx' = [idx EXCEPT ![t] = @ + 1]
    /\ UNCHANGED <<isSigned, numbers, predicates, aborted, pc, op, arg,
                   pred, acc, ret>>

FilterReturn(t) ==
    /\ ~aborted
    /\ pc[t] = "loop"
    /\ op[t] = "filter"
    /\ idx[t] > Len(vec(t))
    /\ ret' = [ret EXCEPT ![t] = VecVal(result[t])]
    /\ pc' = [pc EXCEPT ![t] = "done"]
    /\ result' = [result EXCEPT ![t] = <<>>]
    /\ idx' = [idx EXCEPT ![t] = 0]
    /\ UNCHANGED <<isSigned, numbers, predicates, aborted, op, arg, pred,
                   acc, calls>>

---------------------------------------------------------------------------
(* utils::sum and utils::average *)

SumCall(t, k) ==
    /\ ~aborted
    /\ pc[t] = "idle"
    /\ pc' = [pc EXCEPT ![t] = "loop"]
    /\ op' = [op EXCEPT ![t] = "sum"]
    /\ arg' = [arg EXCEPT ![t] = k]
    /\ acc' = [acc EXCEPT ![t] = TZero]
    /\ idx' = [idx EXCEPT ![t] = 1]
    /\ UNCHANGED <<isSigned, numbers, predicates, aborted, pred, result,
                   calls, ret>>

\* average of an empty vector: return 0.0
AverageCallEmpty(t, k) ==
    /\ ~aborted
    /\ pc[t] = "idle"
    /\ Len(numbers[k]) = 0
    /\ pc' = [pc EXCEPT ![t] = "done"]
    /\ op' = [op EXCEPT ![t] = "average"]
    /\ arg' = [arg EXCEPT ![t] = k]
    /\ ret' = [ret EXCEPT ![t] = DoubleVal(DZero)]
    /\ UNCHANGED <<isSigned, numbers, predicates, aborted, pred, idx, acc,
                   result, calls>>

\* average of a non-empty vector: enters sum(vec)
AverageCallNonEmpty(t, k) ==
    /\ ~aborted
    /\ pc[t] = "idle"
    /\ Len(numbers[k]) # 0
    /\ pc' = [pc EXCEPT ![t] = "loop"]
    /\ op' = [op EXCEPT ![t] = "average"]
    /\ arg' = [arg EXCEPT ![t] = k]
    /\ acc' = [acc EXCEPT ![t] = TZero]
    /\ idx' = [idx EXCEPT ![t] = 1]
    /\ UNCHANGED <<isSigned, numbers, predicates, aborted, pred, result,
                   calls, ret>>

\* fault: one accumulator for all the calls (a static local)
AccumulateStepShared(t) ==
    /\ ~aborted
    /\ pc[t] = "loop"
    /\ op[t] \in {"sum", "average"}
    /\ idx[t] <= Len(vec(t))
    /\ acc' = [u \in Threads |->
                  Accumulate(isSigned, acc[t], vec(t)[idx[t]])]
    /\ idx' = [idx EXCEPT ![t] = @ + 1]
    /\ UNCHANGED <<isSigned, numbers, predicates, aborted, pc, op, arg,
                   pred, result, calls, ret>>

\* one iteration of std::accumulate, in sum or in the sum average calls
AccumulateStep(t) ==
    /\ ~aborted
    /\ pc[t] = "loop"
    /\ op[t] \in {"sum", "average"}
    /\ idx[t] <= Len(vec(t))
    /\ acc' = [acc EXCEPT ![t] = Accumulate(isSigned, @, vec(t)[idx[t]])]
    /\ idx' = [idx EXCEPT ![t] = @ + 1]
    /\ UNCHANGED <<isSigned, numbers, predicates, aborted, pc, op, arg,
                   pred, result, calls, ret>>

\* the other outcome of a signed addition that overflows: the build traps
OverflowTrap(t) ==
    /\ ~aborted
    /\ pc[t] = "loop"
    /\ op[t] \in {"sum", "average"}
    /\ idx[t] <= Len(vec(t))
    /\ isSigned
    /\ Overflows(isSigned, acc[t], vec(t)[idx[t]])
    /\ aborted' = TRUE
    /\ UNCHANGED <<isSigned, numbers, predicates, pc, op, arg, pred, idx,
                   acc, result, calls, ret>>

SumReturn(t) ==
    /\ ~aborted
    /\ pc[t] = "loop"
    /\ op[t] = "sum"
    /\ idx[t] > Len(vec(t))
    /\ ret' = [ret EXCEPT ![t] = TVal(acc[t])]
    /\ pc' = [pc EXCEPT ![t] = "done"]
    /\ acc' = [acc EXCEPT ![t] = 0]
    /\ idx' = [idx EXCEPT ![t] = 0]
    /\ UNCHANGED <<isSigned, numbers, predicates, aborted, op, arg, pred,
                   result, calls>>

\* fault: the cast applied to the quotient, static_cast<double>(sum / size)
AverageReturnCastLate(t) ==
    /\ ~aborted
    /\ pc[t] = "loop"
    /\ op[t] = "average"
    /\ idx[t] > Len(vec(t))
    /\ ret' = [ret EXCEPT ![t] =
                  DoubleVal(ToDouble(CDiv(acc[t], Len(vec(t)))))]
    /\ pc' = [pc EXCEPT ![t] = "done"]
    /\ acc' = [acc EXCEPT ![t] = 0]
    /\ idx' = [idx EXCEPT ![t] = 0]
    /\ UNCHANGED <<isSigned, numbers, predicates, aborted, op, arg, pred,
                   result, calls>>

\* static_cast<double>(sum(vec)) / vec.size()
AverageReturn(t) ==
    /\ ~aborted
    /\ pc[t] = "loop"
    /\ op[t] = "average"
    /\ idx[t] > Len(vec(t))
    /\ ret' = [ret EXCEPT ![t] =
                  DoubleVal(DDiv(ToDouble(acc[t]), Len(vec(t))))]
    /\ pc' = [pc EXCEPT ![t] = "done"]
    /\ acc' = [acc EXCEPT ![t] = 0]
    /\ idx' = [idx EXCEPT ![t] = 0]
    /\ UNCHANGED <<isSigned, numbers, predicates, aborted, op, arg, pred,
                   result, calls>>

---------------------------------------------------------------------------
(* main's own loop over numbers *)

MainLoopCall(t, k) ==
    /\ ~aborted
    /\ t = MainThread
    /\ pc[t] = "idle"
    /\ pc' = [pc EXCEPT ![t] = "loop"]
    /\ op' = [op EXCEPT ![t] = "main_loop"]
    /\ arg' = [arg EXCEPT ![t] = k]
    /\ result' = [result EXCEPT ![t] = <<>>]
    /\ idx' = [idx EXCEPT ![t] = 1]
    /\ UNCHANGED <<isSigned, numbers, predicates, aborted, pred, acc, calls,
                   ret>>

MainLoopStep(t) ==
    /\ ~aborted
    /\ pc[t] = "loop"
    /\ op[t] = "main_loop"
    /\ idx[t] <= Len(vec(t))
    /\ result' = [result EXCEPT ![t] = MainLoopBody(@, vec(t)[idx[t]])]
    /\ idx' = [idx EXCEPT ![t] = @ + 1]
    /\ UNCHANGED <<isSigned, numbers, predicates, aborted, pc, op, arg,
                   pred, acc, calls, ret>>

MainLoopEnd(t) ==
    /\ ~aborted
    /\ pc[t] = "loop"
    /\ op[t] = "main_loop"
    /\ idx[t] > Len(vec(t))
    /\ ret' = [ret EXCEPT ![t] = VecVal(result[t])]
    /\ pc' = [pc EXCEPT ![t] = "done"]
    /\ result' = [result EXCEPT ![t] = <<>>]
    /\ idx' = [idx EXCEPT ![t] = 0]
    /\ UNCHANGED <<isSigned, numbers, predicates, aborted, op, arg, pred,
                   acc, calls>>

\* the caller prints the value and drops it
Consume(t) ==
    /\ ~aborted
    /\ pc[t] = "done"
    /\ pc' = [pc EXCEPT ![t] = "idle"]
    /\ op' = [op EXCEPT ![t] = "none"]
    /\ arg' = [arg EXCEPT ![t] = 0]
    /\ pred' = [pred EXCEPT ![t] = Named("none")]
    /\ calls' = [calls EXCEPT ![t] = <<>>]
    /\ ret' = [ret EXCEPT ![t] = NoRet]
    /\ UNCHANGED <<isSigned, numbers, predicates, aborted, idx, acc,
                   result>>

---------------------------------------------------------------------------

Next ==
    \/ \E t \in Threads, k \in DOMAIN numbers, p \in predicates :
           FilterCall(t, k, p)
    \/ \E t \in Threads : FilterStep(t)
    \/ \E t \in Threads : FilterReturn(t)
    \/ \E t \in Threads, k \in DOMAIN numbers : SumCall(t, k)
    \/ \E t \in Threads, k \in DOMAIN numbers : AverageCallEmpty(t, k)
    \/ \E t \in Threads, k \in DOMAIN numbers : AverageCallNonEmpty(t, k)
    \/ \E t \in Threads : AccumulateStep(t)
    \/ \E t \in Threads : OverflowTrap(t)
    \/ \E t \in Threads : SumReturn(t)
    \/ \E t \in Threads : AverageReturn(t)
    \/ \E t \in Threads, k \in DOMAIN numbers : MainLoopCall(t, k)
    \/ \E t \in Threads : MainLoopStep(t)
    \/ \E t \in Threads : MainLoopEnd(t)
    \/ \E t \in Threads : Consume(t)

Spec == Init /\ [][Next]_vars

SpecConc == InitConc /\ [][Next]_vars

\* a thread inside filter's loop keeps running
SpecFair ==
    /\ Init
    /\ [][Next]_vars
    /\ WF_vars(FilterStep(MainThread))
    /\ WF_vars(FilterReturn(MainThread))

---------------------------------------------------------------------------
(* Properties *)

Done(t, f) == pc[t] = "done" /\ op[t] = f

\* the positions of S whose element satisfies p
Kept(S, p) == {i \in 1..Len(S) : Test(p, S[i])}

\* r is S restricted to the positions in J, in the order of S
IsRestriction(r, S, J) ==
    /\ Len(r) = Cardinality(J)
    /\ \A i \in J : r[Cardinality({j \in J : j <= i})] = S[i]

RECURSIVE LeftFold(_, _, _)
LeftFold(sgn, z, S) ==
    IF S = <<>> THEN z ELSE LeftFold(sgn, TPlus(sgn, z, Head(S)), Tail(S))

RECURSIVE MathSum(_)
MathSum(S) == IF S = <<>> THEN 0 ELSE Head(S) + MathSum(Tail(S))

\* the double d is exactly a / n
IsQuotient(d, a, n) == d[2] > 0 /\ d[1] * n = a * d[2]

Iota(n) == [i \in 1..n |-> i]

\* the predicate has been invoked on the elements the loop has passed,
\* once each, in their order
FilterCallsInOrder(t) ==
    /\ (pc[t] = "loop" /\ op[t] = "filter") => calls[t] = Iota(idx[t] - 1)
    /\ Done(t, "filter") => calls[t] = Iota(Len(vec(t)))

\* what the function thread t called returns on its input when run alone
RunAlone(t) ==
    CASE op[t] = "filter"  -> VecVal(filter(vec(t), pred[t]))
      [] op[t] = "sum"     -> TVal(sum(isSigned, vec(t)))
      [] op[t] = "average" -> DoubleVal(average(isSigned, vec(t)))

\* the locals of thread t's call and the value it returned
Frame(t) ==
    <<pc[t], op[t], arg[t], pred[t], idx[t], acc[t], result[t], calls[t],
      ret[t]>>

\* C1: a finished filter call returned exactly the elements of its input
\* that satisfy the predicate, each as often as it occurs and in the order
\* of the input, nothing else, and no more elements than the input has.
C1_FilterIsSubsequence ==
    \A t \in Threads :
        Done(t, "filter") =>
            /\ IsRestriction(ret[t].val, vec(t), Kept(vec(t), pred[t]))
            /\ \A k \in 1..Len(ret[t].val) : Test(pred[t], ret[t].val[k])
            /\ Len(ret[t].val) <= Len(vec(t))

C1_Witness ==
    \E t \in Threads :
        /\ Done(t, "filter")
        /\ pred[t] = Named("is_even")
        /\ Len(ret[t].val) >= 2
        /\ Len(ret[t].val) < Len(vec(t))
        /\ ret[t].val[1] # ret[t].val[2]

\* C2: a finished sum call returned the left fold of T's + over its input
\* starting from T's zero; for the empty input that is T's zero.
C2_SumIsLeftFold ==
    \A t \in Threads :
        Done(t, "sum") =>
            /\ ret[t].val = LeftFold(isSigned, 0, vec(t))
            /\ vec(t) = <<>> => ret[t].val = 0

C2_Witness ==
    \E t \in Threads :
        /\ Done(t, "sum")
        /\ Len(vec(t)) >= 2
        /\ ret[t].val # 0
        /\ ret[t].val # vec(t)[Len(vec(t))]

\* C3: a finished average call on a non-empty input returned exactly
\* sum(S) / length(S), a quotient that need not be an integer; on the empty
\* input it returned 0.0 (and not the NaN that 0.0 / 0 would be).
C3_AverageIsRealQuotient ==
    \A t \in Threads :
        Done(t, "average") =>
            IF Len(vec(t)) = 0
            THEN ret[t].val = <<0, 1>>
            ELSE IsQuotient(ret[t].val, sum(isSigned, vec(t)), Len(vec(t)))

C3_Witness ==
    \E t \in Threads :
        /\ Done(t, "average")
        /\ Len(vec(t)) >= 2
        /\ ret[t].val[2] > 1

\* C4: no step of filter, sum or average (or of any caller) changes an
\* input vector: the vectors stay what they were, whatever calls are made.
C4_InputsNeverMutated == [][numbers' = numbers]_vars

C4_Witness ==
    \E t \in Threads :
        /\ Done(t, "filter")
        /\ pred[t] = Named("always_false")
        /\ ret[t].val = <<>>
        /\ Len(vec(t)) >= 2

\* C5: during a filter call the predicate has been invoked exactly on the
\* elements before the loop's position, once each and in their order; when
\* the call has returned it has been invoked on every element once, in
\* order (never, for the empty input); and a call that started returns.
C5_PredicateOncePerElementInOrder ==
    /\ [](\A t \in Threads : FilterCallsInOrder(t))
    /\ (pc[MainThread] = "loop" /\ op[MainThread] = "filter")
           ~> Done(MainThread, "filter")

C5_Witness ==
    \E t \in Threads :
        /\ Done(t, "filter")
        /\ pred[t] = Named("is_even")
        /\ Len(vec(t)) >= 2
        /\ calls[t] = Iota(Len(vec(t)))
        /\ Len(ret[t].val) = 0

\* C6: with several threads calling filter, sum and average on the same or
\* on different vectors, every step changes the frame of one thread only,
\* and every call that returns returns what the function returns on its
\* input when run alone.
C6_ConcurrentCallsIndependent ==
    /\ [](\A t \in Threads :
              (pc[t] = "done" /\ op[t] \in {"filter", "sum", "average"})
                  => ret[t] = RunAlone(t))
    /\ [][\E t \in 1..NumThreads :
              \A u \in (1..NumThreads) \ {t} : Frame(u)' = Frame(u)]_vars
    /\ [][numbers' = numbers /\ isSigned' = isSigned]_vars

C6_Witness ==
    \E t \in Threads, u \in Threads :
        /\ t # u
        /\ pc[t] = "done"
        /\ op[t] \in {"sum", "average"}
        /\ Len(vec(t)) >= 2
        /\ pc[u] = "loop"
        /\ op[u] \in {"sum", "average"}
        /\ arg[u] = arg[t]
        /\ idx[u] = 2

\* C7: a finished filter call with the predicate that holds of everything
\* returned its input, element by element.
C7_FilterAlwaysTrueIsIdentity ==
    \A t \in Threads :
        (Done(t, "filter") /\ pred[t] = Named("always_true"))
            => ret[t].val = vec(t)

C7_Witness ==
    \E t \in Threads :
        /\ Done(t, "filter")
        /\ pred[t] = Named("always_true")
        /\ Len(vec(t)) >= 2
        /\ vec(t)[1] # vec(t)[2]

\* C8: on main's numbers, 1 to 10, sum returns 55, average returns 5.5 and
\* filter with the is-even predicate returns 2, 4, 6, 8, 10.
C8_MainScenario ==
    \A t \in Threads :
        (pc[t] = "done" /\ vec(t) = <<1, 2, 3, 4, 5, 6, 7, 8, 9, 10>>) =>
            /\ op[t] = "sum" => ret[t].val = 55
            /\ op[t] = "average" => ret[t].val = <<11, 2>>
            /\ (op[t] = "filter" /\ pred[t] = Named("is_even"))
                   => ret[t].val = <<2, 4, 6, 8, 10>>

C8_Witness ==
    \E t \in Threads :
        /\ Done(t, "average")
        /\ vec(t) = MainNumbers

\* C9: sum's result is a value of T, the mathematical sum of the input
\* reduced modulo 2^W into T's range; average's result on a non-empty input
\* is that reduced sum divided by the length, also when the reduced sum
\* differs from the mathematical sum.
C9_SumWrapsInT ==
    \A t \in Threads :
        /\ Done(t, "sum") =>
               /\ InT(isSigned, ret[t].val)
               /\ (ret[t].val - MathSum(vec(t))) % (2^W) = 0
        /\ (Done(t, "average") /\ Len(vec(t)) > 0) =>
               \E s \in TMin(isSigned)..TMax(isSigned) :
                   /\ (s - MathSum(vec(t))) % (2^W) = 0
                   /\ IsQuotient(ret[t].val, s, Len(vec(t)))

C9_Witness ==
    \E t \in Threads :
        /\ Done(t, "average")
        /\ ~InT(isSigned, MathSum(vec(t)))
        /\ ~IsQuotient(ret[t].val, MathSum(vec(t)), Len(vec(t)))

\* C10: main's own loop produces what utils::filter returns on numbers
\* with the predicate n % 2 == 0, and no step of it (its start, its
\* iterations, its end) changes numbers.
C10_MainLoopIsFilterIsEven ==
    /\ [](\A t \in Threads :
              Done(t, "main_loop")
                  => ret[t].val = filter(vec(t), Named("is_even")))
    /\ [][(op[MainThread] = "main_loop" \/ op'[MainThread] = "main_loop")
              => numbers' = numbers]_vars

C10_Witness ==
    \E t \in Threads :
        /\ Done(t, "main_loop")
        /\ Len(ret[t].val) >= 1
        /\ \E i \in 1..Len(vec(t)) : vec(t)[i] < 0 /\ CRem(vec(t)[i], 2) # 0

===========================================================================
